---------------------------- MODULE Spec2Model ----------------------------
(***************************************************************************)
(* DRMDisplay (src/src/common/drm_display.cpp): a KMS display backend.     *)
(*                                                                         *)
(* The model holds the fields of one DRMDisplay instance, the hardware     *)
(* topology the kernel reports to it, the kernel's framebuffer registry    *)
(* and page-flip/event state of the device descriptor, and the gbm         *)
(* surface's buffer pool.  One action per public operation; the blocking   *)
(* loop of a synchronized PresentSurface is one action per loop iteration, *)
(* because the kernel acts between iterations.                             *)
(***************************************************************************)
EXTENDS Integers, Sequences, FiniteSets, TLC

VARIABLES
  res,            \* what the kernel reports: connectors, encoders, crtcs
  life,           \* "constructed", "ready", "failed", "destroyed", "aborted", "crashed"
  m_card_fd,      \* -1 or the open descriptor
  m_connector,    \* 0 (nullptr) or the position of the retained connector in res.connectors
  m_mode,         \* 0 (nullptr) or the position of the mode in the connector's mode list
  m_crtc_id,      \* u32
  m_gbm_device,   \* FALSE (nullptr) or TRUE
  m_fb_surface,   \* NoSurface (nullptr) or the surface's [width, height, format]
  m_buffers,      \* [1..MAX_BUFFERS -> Buffer], slot i of the code is slot i+1 here
  m_num_buffers,
  created,        \* gbm surface: number of buffer objects it has allocated (1..created)
  front,          \* gbm surface: the current front buffer object, 0 when there is none
  locked,         \* gbm surface: the buffer objects locked and not yet released
  held,           \* caller: the slots (Buffer*) it got from LockFrontBuffer and has not released
  kfb,            \* kernel: the framebuffer ids registered on the descriptor
  regs,           \* kernel: [buffer object -> number of successful drmModeAddFB2 calls naming it]
  ppc,            \* PresentSurface: "idle" or "waiting" (inside the loop at line 270)
  flip,           \* kernel: "none", or whose page flip is pending: "own" (the running call) or "stale"
  evq,            \* kernel: completion events readable on the descriptor, tagged "own" or "stale"
  pres,           \* the running or last PresentSurface call: what it did
  waitEverFailed, \* whether a readiness wait (select) has failed on this instance
  ret,            \* the last operation and its return value, [op, val]; an operation that
                  \* ended the process instead is [op |-> "Assert" or "SIGSEGV", val |-> its name]
  calls           \* the kernel and library calls the last operation made, in order

vars == <<res, life, m_card_fd, m_connector, m_mode, m_crtc_id, m_gbm_device, m_fb_surface,
          m_buffers, m_num_buffers, created, front, locked, held, kfb, regs,
          ppc, flip, evq, pres, waitEverFailed, ret, calls>>

topoVars == <<res>>
devVars  == <<m_card_fd, m_connector, m_mode, m_crtc_id, m_gbm_device>>
bufVars  == <<m_buffers, m_num_buffers, kfb, regs>>
surfVars == <<created, front, locked, held>>
flipVars == <<ppc, flip, evq, pres, waitEverFailed>>

-----------------------------------------------------------------------------
(* Bounds of the model *)

MaxModes == 3          \* longest mode list of a connector
MaxConnectors == 2     \* longest connector list of the resources
MaxConnEncoders == 2   \* longest encoder list of a connector
NumBOs == 5            \* depth of the gbm surface's buffer pool
MaxHeld == 2           \* buffers the caller keeps locked at the same time
MaxEvents == 2         \* events the kernel queues on the descriptor (its event space)
MaxSpurious == 2       \* wake-ups without a ready descriptor counted per call

(* Capacity of m_buffers (declared in drm_display.h) *)
MAX_BUFFERS == 4

-----------------------------------------------------------------------------
(* u32 arithmetic.  TLC's integers are 32-bit signed, so uint32_t is modelled  *)
(* 30 bits wide: (uint32_t)-1 is the all-ones value of that width, non-zero   *)
(* and no object id of the topologies below.                                  *)

ToU32(x) == x % (2 ^ 30)

RECURSIVE Pow2(_)
Pow2(n) == IF n = 0 THEN 1 ELSE 2 * Pow2(n - 1)

\* (mask & (1 << i)) != 0
BitSet(mask, i) == (mask \div Pow2(i)) % 2 = 1

-----------------------------------------------------------------------------
(* The hardware topology the kernel reports (drmModeRes, drmModeConnector,  *)
(* drmModeEncoder, drmModeModeInfo, reduced to the fields the code reads)   *)

Mode(h, v, p) == [hdisplay |-> h, vdisplay |-> v, preferred |-> p]

Encoder(id, crtc, mask) == [encoder_id |-> id, crtc_id |-> crtc, possible_crtcs |-> mask]

Connector(id, c, ms, eid, es) ==
  [connector_id |-> id, connected |-> c, modes |-> ms, encoder_id |-> eid, encoders |-> es]

Resources(cs, es, crtcs) == [connectors |-> cs, encoders |-> es, crtcs |-> crtcs]

\* sequences over S of length at most n
SeqsUpTo(S, n) == UNION {[1..k -> S] : k \in 0..n}

\* those without a repeated element
DistinctSeqsUpTo(S, n) ==
  {q \in SeqsUpTo(S, n) : \A i, j \in 1..Len(q) : q[i] = q[j] => i = j}

ResCrtcs == <<41, 42>>          \* resources->crtcs: kernel object ids, never 0
\* ids a connector's encoder list may name: the two encoders of the resources
\* and one that drmModeGetEncoder answers with NULL
ConnEncoderIds == {21, 22, 29}
ConnectorIdAt(i) == 30 + i      \* resources->connectors[i]

ModeSet ==
  {Mode(h, v, p) : h \in {1920, 3840}, v \in {1080, 2160}, p \in BOOLEAN}

EncoderSetOf(id) ==
  {Encoder(id, c, m) : c \in {0} \cup {ResCrtcs[i] : i \in 1..Len(ResCrtcs)},
                       m \in 0..(Pow2(Len(ResCrtcs)) - 1)}

DefaultModes == <<Mode(1920, 1080, TRUE), Mode(3840, 2160, FALSE)>>
DefaultEncoders == <<Encoder(21, 41, 1), Encoder(22, 0, 2)>>
DefaultConnector(i, c) == Connector(ConnectorIdAt(i), c, DefaultModes, 21, <<21, 22>>)

\* one connected connector, every encoder table and every encoder binding of it
CrtcTopologies ==
  {Resources(<<Connector(ConnectorIdAt(1), TRUE, DefaultModes, eid, es)>>, <<e1, e2>>, ResCrtcs) :
     eid \in {0, 21, 22},
     es \in DistinctSeqsUpTo(ConnEncoderIds, MaxConnEncoders),
     e1 \in EncoderSetOf(21), e2 \in EncoderSetOf(22)}

\* one connected connector, every mode list
ModeTopologies ==
  {Resources(<<Connector(ConnectorIdAt(1), TRUE, ms, 21, <<21, 22>>)>>, DefaultEncoders, ResCrtcs) :
     ms \in SeqsUpTo(ModeSet, MaxModes)}

\* every connector list
ConnectorTopologies ==
  {Resources([i \in 1..Len(cs) |-> DefaultConnector(i, cs[i])], DefaultEncoders, ResCrtcs) :
     cs \in SeqsUpTo(BOOLEAN, MaxConnectors)}

Topologies == CrtcTopologies \cup ModeTopologies \cup ConnectorTopologies

\* the topologies the buffer and presentation operations are explored on
DisplayTopologies ==
  { Resources(<<DefaultConnector(1, FALSE), DefaultConnector(2, TRUE)>>, DefaultEncoders, ResCrtcs),
    Resources(<<DefaultConnector(1, FALSE)>>, DefaultEncoders, ResCrtcs),
    Resources(<<Connector(ConnectorIdAt(1), TRUE, <<>>, 21, <<21, 22>>)>>, DefaultEncoders, ResCrtcs) }

-----------------------------------------------------------------------------
(* Topology resolution *)

\* the scan without its break: the last connected connector is kept
RECURSIVE ConnectorLoopNoBreak(_, _)
ConnectorLoopNoBreak(conns, i) ==
  IF i > Len(conns) THEN 0
  ELSE LET later == ConnectorLoopNoBreak(conns, i + 1)
       IN IF later # 0 THEN later
          ELSE IF conns[i].connected THEN i
          ELSE 0

\* lines 100-110: position of the first connected connector, 0 when none
RECURSIVE ConnectorLoop(_, _)
ConnectorLoop(conns, i) ==
  IF i > Len(conns) THEN 0
  ELSE IF conns[i].connected THEN i
  ELSE ConnectorLoop(conns, i + 1)

\* lines 100-110: drmModeGetConnector for each connector looked at,
\* drmModeFreeConnector for each one passed over
RECURSIVE ConnectorCalls(_, _)
ConnectorCalls(conns, i) ==
  IF i > Len(conns) THEN <<>>
  ELSE IF conns[i].connected THEN << <<"drmModeGetConnector", i>> >>
  ELSE << <<"drmModeGetConnector", i>>, <<"drmModeFreeConnector", i>> >>
         \o ConnectorCalls(conns, i + 1)

\* line 128: hdisplay * vdisplay (both u16, promoted to int)
Area(m) == m.hdisplay * m.vdisplay

\* ModeLoop with >= for > at line 128: the last of several largest modes wins
RECURSIVE ModeLoopLastLargest(_, _, _)
ModeLoopLastLargest(modes, i, cur) ==
  IF i > Len(modes) THEN cur
  ELSE IF modes[i].preferred THEN i
  ELSE IF cur = 0 \/ Area(modes[i]) >= Area(modes[cur]) THEN ModeLoopLastLargest(modes, i + 1, i)
  ELSE ModeLoopLastLargest(modes, i + 1, cur)

\* lines 119-132: cur is m_mode (0 is nullptr)
RECURSIVE ModeLoop(_, _, _)
ModeLoop(modes, i, cur) ==
  IF i > Len(modes) THEN cur
  ELSE IF modes[i].preferred THEN i
  ELSE IF cur = 0 \/ Area(modes[i]) > Area(modes[cur]) THEN ModeLoop(modes, i + 1, i)
  ELSE ModeLoop(modes, i + 1, cur)

\* EncoderLoop comparing the encoder's crtc_id, not its encoder_id, at line 145
RECURSIVE EncoderLoopWrongField(_, _, _)
EncoderLoopWrongField(encs, encoder_id, i) ==
  IF i > Len(encs) THEN 0
  ELSE IF encs[i].crtc_id = encoder_id THEN i
  ELSE EncoderLoopWrongField(encs, encoder_id, i + 1)

\* lines 142-153: position in resources->encoders of the encoder whose id is the
\* connector's encoder_id, 0 when none
RECURSIVE EncoderLoop(_, _, _)
EncoderLoop(encs, encoder_id, i) ==
  IF i > Len(encs) THEN 0
  ELSE IF encs[i].encoder_id = encoder_id THEN i
  ELSE EncoderLoop(encs, encoder_id, i + 1)

\* lines 142-158: the encoders fetched and freed by that loop
RECURSIVE EncoderCalls(_, _, _)
EncoderCalls(encs, encoder_id, i) ==
  IF i > Len(encs) THEN <<>>
  ELSE IF encs[i].encoder_id = encoder_id
       THEN << <<"drmModeGetEncoder", encs[i].encoder_id>>, <<"drmModeFreeEncoder", encs[i].encoder_id>> >>
  ELSE << <<"drmModeGetEncoder", encs[i].encoder_id>>, <<"drmModeFreeEncoder", encs[i].encoder_id>> >>
         \o EncoderCalls(encs, encoder_id, i + 1)

\* drmModeGetEncoder(card_fd, id): position of the encoder in the kernel's table, 0 for NULL
drmModeGetEncoder(r, id) ==
  IF \E i \in 1..Len(r.encoders) : r.encoders[i].encoder_id = id
  THEN CHOOSE i \in 1..Len(r.encoders) : r.encoders[i].encoder_id = id
  ELSE 0

\* lines 36-55; i counts from 0 as in the code
RECURSIVE find_crtc_for_encoder_from(_, _, _)
find_crtc_for_encoder_from(crtcs, encoder, i) ==
  IF i >= Len(crtcs) THEN ToU32(-1)
  ELSE IF BitSet(encoder.possible_crtcs, i) THEN crtcs[i + 1]
  ELSE find_crtc_for_encoder_from(crtcs, encoder, i + 1)

find_crtc_for_encoder(crtcs, encoder) == find_crtc_for_encoder_from(crtcs, encoder, 0)

\* lines 57-80; i counts from 1
RECURSIVE find_crtc_for_connector_from(_, _, _)
find_crtc_for_connector_from(r, connector, i) ==
  IF i > Len(connector.encoders) THEN ToU32(-1)
  ELSE LET e == drmModeGetEncoder(r, connector.encoders[i])
           crtc_id == IF e = 0 THEN 0 ELSE find_crtc_for_encoder(r.crtcs, r.encoders[e])
       IN IF e # 0 /\ crtc_id # 0 THEN crtc_id
          ELSE find_crtc_for_connector_from(r, connector, i + 1)

find_crtc_for_connector(r, connector) == find_crtc_for_connector_from(r, connector, 1)

-----------------------------------------------------------------------------
(* Construction, Initialize, CreateFramebufferSurface, teardown *)

Returned(op, val) == [op |-> op, val |-> val]

NoSurface == [width |-> 0, height |-> 0, format |-> "none"]
NoBuffer == [bo |-> 0, width |-> 0, height |-> 0, stride |-> 0, format |-> "none", fb_id |-> 0]
\* what a PresentSurface call did: the buffer it was given, whether its flip was submitted, the completion
\* events its handler processed (all, and those of its own flip), the wake-ups
\* without a ready descriptor, whether its wait failed, and whether its flip was
\* still to complete or to be handled when it returned
NoPresent == [kind |-> "none", buffer |-> 0, submitted |-> FALSE, handled |-> 0, own |-> 0,
              spurious |-> 0, waitFailed |-> FALSE, outstanding |-> FALSE]
Formats == {"XR24", "AR24"}     \* fourcc values the caller asks for

\* line 11 and the member initialisers; the kernel and the surface have nothing yet
Constructed ==
  /\ life = "constructed"
  /\ m_card_fd = -1 /\ m_connector = 0 /\ m_mode = 0 /\ m_crtc_id = 0
  /\ m_gbm_device = FALSE /\ m_fb_surface = NoSurface
  /\ m_buffers = [i \in 1..MAX_BUFFERS |-> NoBuffer] /\ m_num_buffers = 0
  /\ created = 0 /\ front = 0 /\ locked = {} /\ held = {}
  /\ kfb = {} /\ regs = [b \in 1..NumBOs |-> 0]
  /\ ppc = "idle" /\ flip = "none" /\ evq = <<>> /\ pres = NoPresent /\ waitEverFailed = FALSE
  /\ ret = Returned("DRMDisplay", "void") /\ calls = <<>>

Init == res \in DisplayTopologies /\ Constructed

InitTopology == res \in Topologies /\ Constructed

\* lines 141-168: the controller id, from the directly bound encoder or from the scan
ResolveCrtc(r, connector) ==
  LET e == EncoderLoop(r.encoders, connector.encoder_id, 1)
  IN IF e # 0 THEN r.encoders[e].crtc_id ELSE find_crtc_for_connector(r, connector)

\* lines 141-161: the calls of the controller resolution
ResolveCrtcCalls(r, connector) ==
  EncoderCalls(r.encoders, connector.encoder_id, 1)
    \o (IF EncoderLoop(r.encoders, connector.encoder_id, 1) # 0 THEN <<>>
        ELSE << <<"find_crtc_for_connector", 0>> >>)

\* lines 82-180: the fields Initialize leaves, its return value and its calls, given
\* whether open, drmModeGetResources and gbm_create_device succeed
InitializeResult(r, openOK, resOK, gbmOK) ==
  LET c == ConnectorLoop(r.connectors, 1)
      m == IF c = 0 THEN 0 ELSE ModeLoop(r.connectors[c].modes, 1, 0)
      crtc == IF m = 0 THEN 0 ELSE ResolveCrtc(r, r.connectors[c])
      none == [fd |-> -1, connector |-> 0, mode |-> 0, crtc |-> 0, gbm |-> FALSE,
               ret |-> FALSE, calls |-> << <<"open", -1>> >>]
      opened == [none EXCEPT !.fd = 3,
                             !.calls = << <<"open", 3>>,
                                          <<"drmModeGetResources", IF resOK THEN 1 ELSE 0>> >>]
      scanned == [opened EXCEPT !.connector = c, !.calls = @ \o ConnectorCalls(r.connectors, 1)]
      picked == [scanned EXCEPT !.mode = m]
      bound == [picked EXCEPT !.crtc = crtc, !.calls = @ \o ResolveCrtcCalls(r, r.connectors[c])]
      freed(x) == [x EXCEPT !.calls = @ \o << <<"drmModeFreeResources", 0>> >>]
  IN IF ~openOK THEN none
     ELSE IF ~resOK THEN opened
     ELSE IF c = 0 THEN freed(scanned)
     ELSE IF m = 0 THEN freed(picked)
     ELSE IF EncoderLoop(r.encoders, r.connectors[c].encoder_id, 1) = 0 /\ crtc = 0 THEN freed(bound)
     ELSE [freed(bound) EXCEPT !.gbm = gbmOK, !.ret = gbmOK,
                               !.calls = @ \o << <<"gbm_create_device", IF gbmOK THEN 1 ELSE 0>> >>]

Initialize ==
  /\ life = "constructed"
  /\ \E openOK, resOK, gbmOK \in BOOLEAN :
       LET x == InitializeResult(res, openOK, resOK, gbmOK)
       IN /\ m_card_fd' = x.fd
          /\ m_connector' = x.connector
          /\ m_mode' = x.mode
          /\ m_crtc_id' = x.crtc
          /\ m_gbm_device' = x.gbm
          /\ ret' = Returned("Initialize", x.ret)
          /\ calls' = x.calls
          /\ life' = IF x.ret THEN "ready" ELSE "failed"
  /\ UNCHANGED <<topoVars, m_fb_surface, bufVars, surfVars, flipVars>>

\* GetWidth(), GetHeight(): the selected mode's resolution
SelectedMode == res.connectors[m_connector].modes[m_mode]

\* m_connector->connector_id
TheConnectorId == res.connectors[m_connector].connector_id

\* lines 182-194
CreateFramebufferSurface ==
  /\ life = "ready" /\ ppc = "idle"
  /\ \E fourcc \in Formats, ok \in BOOLEAN :
       IF m_fb_surface # NoSurface
       THEN \* Assert(!m_fb_surface)
            /\ life' = "aborted"
            /\ ret' = Returned("Assert", "CreateFramebufferSurface") /\ calls' = <<>>
            /\ UNCHANGED m_fb_surface
       ELSE /\ m_fb_surface' = IF ok THEN [width |-> SelectedMode.hdisplay,
                                           height |-> SelectedMode.vdisplay,
                                           format |-> fourcc]
                               ELSE NoSurface
            /\ ret' = Returned("CreateFramebufferSurface", IF ok THEN "surface" ELSE "nullptr")
            /\ calls' = << <<"gbm_surface_create", 0>> >>
            /\ UNCHANGED life
  /\ UNCHANGED <<topoVars, devVars, bufVars, surfVars, flipVars>>

\* the loop stopping one slot short: the first framebuffer stays registered
RECURSIVE RemoveCallsLeavesFirst(_, _)
RemoveCallsLeavesFirst(bufs, n) ==
  IF n <= 1 THEN <<>>
  ELSE << <<"drmModeRmFB", bufs[n].fb_id>> >> \o RemoveCallsLeavesFirst(bufs, n - 1)

\* lines 15-19: drmModeRmFB of every tracked buffer, last slot first
RECURSIVE RemoveCalls(_, _)
RemoveCalls(bufs, n) ==
  IF n = 0 THEN <<>>
  ELSE << <<"drmModeRmFB", bufs[n].fb_id>> >> \o RemoveCalls(bufs, n - 1)

\* the descriptor closed before the connector is freed
DestructorCallsCloseEarly(bufs, n, surface, gbm, connector, fd) ==
  RemoveCalls(bufs, n)
    \o (IF surface # NoSurface THEN << <<"gbm_surface_destroy", 0>> >> ELSE <<>>)
    \o (IF gbm THEN << <<"gbm_device_destroy", 0>> >> ELSE <<>>)
    \o (IF fd >= 0 THEN << <<"close", fd>> >> ELSE <<>>)
    \o (IF connector # 0 THEN << <<"drmModeFreeConnector", connector>> >> ELSE <<>>)

\* lines 13-32
DestructorCalls(bufs, n, surface, gbm, connector, fd) ==
  RemoveCalls(bufs, n)
    \o (IF surface # NoSurface THEN << <<"gbm_surface_destroy", 0>> >> ELSE <<>>)
    \o (IF gbm THEN << <<"gbm_device_destroy", 0>> >> ELSE <<>>)
    \o (IF connector # 0 THEN << <<"drmModeFreeConnector", connector>> >> ELSE <<>>)
    \o (IF fd >= 0 THEN << <<"close", fd>> >> ELSE <<>>)

\* the framebuffer ids a call sequence unregisters
Removed(cs) == {cs[i][2] : i \in {j \in 1..Len(cs) : cs[j][1] = "drmModeRmFB"}}

\* lines 13-32: the destructor runs between operations, never inside PresentSurface
Destructor ==
  /\ life \in {"constructed", "ready", "failed"} /\ ppc = "idle"
  /\ life' = "destroyed"
  /\ calls' = DestructorCalls(m_buffers, m_num_buffers, m_fb_surface, m_gbm_device,
                              m_connector, m_card_fd)
  /\ kfb' = kfb \ Removed(calls')
  /\ m_num_buffers' = 0
  /\ ret' = Returned("~DRMDisplay", "void")
  /\ pres' = NoPresent
  /\ UNCHANGED <<topoVars, devVars, m_fb_surface, m_buffers, regs, surfVars,
                 ppc, flip, evq, waitEverFailed>>

-----------------------------------------------------------------------------
(* The gbm surface and the buffer tracker *)

Usable == life = "ready" /\ m_fb_surface # NoSurface /\ ppc = "idle"

\* The renderer's buffer swap makes a buffer object the surface's front buffer: one
\* the surface allocated before that is neither locked nor the front buffer, or a
\* new one while the pool has room.  Buffer objects are numbered as allocated.
SwapBuffers ==
  /\ Usable /\ front = 0
  /\ \E b \in ((1..created) \ locked) \cup (IF created < NumBOs THEN {created + 1} ELSE {}) :
       /\ front' = b
       /\ created' = IF b > created THEN b ELSE created
  /\ ret' = Returned("SwapBuffers", "void") /\ calls' = <<>>
  /\ pres' = NoPresent
  /\ UNCHANGED <<topoVars, life, devVars, m_fb_surface, bufVars, locked, held,
                 ppc, flip, evq, waitEverFailed>>

\* BufferLoop stopping one entry early (i < m_num_buffers - 1 at line 201)
RECURSIVE BufferLoopStopsEarly(_, _, _, _)
BufferLoopStopsEarly(bufs, n, bo, i) ==
  IF i > n - 1 THEN 0
  ELSE IF bufs[i].bo = bo THEN i
  ELSE BufferLoopStopsEarly(bufs, n, bo, i + 1)

\* BufferLoop comparing the wrong field (fb_id for bo at line 203)
RECURSIVE BufferLoopWrongField(_, _, _, _)
BufferLoopWrongField(bufs, n, bo, i) ==
  IF i > n THEN 0
  ELSE IF bufs[i].fb_id = bo THEN i
  ELSE BufferLoopWrongField(bufs, n, bo, i + 1)

\* lines 200-208: the slot tracking bo, 0 (nullptr) when none does
RECURSIVE BufferLoop(_, _, _, _)
BufferLoop(bufs, n, bo, i) ==
  IF i > n THEN 0
  ELSE IF bufs[i].bo = bo THEN i
  ELSE BufferLoop(bufs, n, bo, i + 1)

\* gbm_bo_get_width, _height, _stride, _format: a buffer object of the surface
\* has the surface's size and format, four bytes a pixel
BoWidth(surface, bo) == surface.width
BoHeight(surface, bo) == surface.height
BoStride(surface, bo) == 4 * surface.width
BoFormat(surface, bo) == surface.format

\* the first slot filled in, not the one after the tracked ones
FillSlotFirst(bufs, n, bo, surface) ==
  [bufs EXCEPT ![1] = [@ EXCEPT !.bo = bo,
                                !.width = BoWidth(surface, bo),
                                !.height = BoHeight(surface, bo),
                                !.stride = BoStride(surface, bo),
                                !.format = BoFormat(surface, bo)]]

\* lines 214-219: the slot after the tracked ones is filled in, fb_id left as it was
FillSlot(bufs, n, bo, surface) ==
  [bufs EXCEPT ![n + 1] = [@ EXCEPT !.bo = bo,
                                    !.width = BoWidth(surface, bo),
                                    !.height = BoHeight(surface, bo),
                                    !.stride = BoStride(surface, bo),
                                    !.format = BoFormat(surface, bo)]]

\* the count raised before drmModeAddFB2's result is looked at
CountAfterAddUnchecked(n, ok) == n + 1

\* lines 227-233: m_num_buffers after drmModeAddFB2 returned
CountAfterAdd(n, ok) == IF ok THEN n + 1 ELSE n

\* the capacity check off by one
CapacityReachedLate(n) == n > MAX_BUFFERS

\* line 213: the condition Assert(m_num_buffers < MAX_BUFFERS) aborts on
CapacityReached(n) == n >= MAX_BUFFERS

\* drmModeAddFB2: the kernel gives the framebuffer the lowest id not in use
NewFbId(k) == 50 + Cardinality(k) + 1

\* lines 196-237.  The surface hands over its front buffer and locks it; without a
\* front buffer it returns NULL, which gbm_bo_get_width dereferences.
LockFrontBuffer ==
  /\ Usable /\ Cardinality(held) < MaxHeld
  /\ \E ok \in BOOLEAN :
       LET bo == front
           hit == BufferLoop(m_buffers, m_num_buffers, bo, 1)
           filled == FillSlot(m_buffers, m_num_buffers, bo, m_fb_surface)
           id == NewFbId(kfb)
           lock == << <<"gbm_surface_lock_front_buffer", bo>> >>
       IN /\ front' = 0
          /\ locked' = IF bo = 0 THEN locked ELSE locked \cup {bo}
          /\ IF hit # 0
             THEN /\ ret' = Returned("LockFrontBuffer", hit)
                  /\ calls' = lock
                  /\ held' = held \cup {hit}
                  /\ UNCHANGED <<life, bufVars>>
             ELSE IF CapacityReached(m_num_buffers)
             THEN \* Assert(m_num_buffers < MAX_BUFFERS)
                  /\ life' = "aborted"
                  /\ ret' = Returned("Assert", "LockFrontBuffer")
                  /\ calls' = lock
                  /\ UNCHANGED <<bufVars, held>>
             ELSE IF bo = 0
             THEN /\ life' = "crashed"
                  /\ ret' = Returned("SIGSEGV", "LockFrontBuffer")
                  /\ calls' = lock
                  /\ m_buffers' = [m_buffers EXCEPT ![m_num_buffers + 1].bo = 0]
                  /\ UNCHANGED <<m_num_buffers, kfb, regs, held>>
             ELSE /\ calls' = lock \o << <<"drmModeAddFB2", bo>> >>
                  /\ m_buffers' = IF ok THEN [filled EXCEPT ![m_num_buffers + 1].fb_id = id]
                                  ELSE filled
                  /\ m_num_buffers' = CountAfterAdd(m_num_buffers, ok)
                  /\ kfb' = IF ok THEN kfb \cup {id} ELSE kfb
                  /\ regs' = IF ok THEN [regs EXCEPT ![bo] = @ + 1] ELSE regs
                  /\ ret' = Returned("LockFrontBuffer", IF ok THEN m_num_buffers + 1 ELSE 0)
                  /\ held' = IF ok THEN held \cup {m_num_buffers + 1} ELSE held
                  /\ UNCHANGED life
  /\ pres' = NoPresent
  /\ UNCHANGED <<topoVars, devVars, m_fb_surface, created, ppc, flip, evq, waitEverFailed>>

\* lines 239-242, on a buffer the caller got from LockFrontBuffer
ReleaseBuffer ==
  /\ Usable
  /\ \E buffer \in held :
       /\ locked' = locked \ {m_buffers[buffer].bo}
       /\ held' = held \ {buffer}
       /\ calls' = << <<"gbm_surface_release_buffer", m_buffers[buffer].bo>> >>
  /\ ret' = Returned("ReleaseBuffer", "void")
  /\ pres' = NoPresent
  /\ UNCHANGED <<topoVars, life, devVars, m_fb_surface, bufVars, created, front,
                 ppc, flip, evq, waitEverFailed>>

-----------------------------------------------------------------------------
(* PresentSurface *)

Void == Returned("PresentSurface", "void")

\* the buffer object's handle passed where the framebuffer id belongs
SetCrtcCallWrongField(buffer, ok) ==
  <<"drmModeSetCrtc", m_crtc_id, m_buffers[buffer].bo, TheConnectorId, m_mode,
    IF ok THEN 0 ELSE -1>>

\* lines 248-249: drmModeSetCrtc(fd, crtc, fb, 0, 0, &connector_id, 1, &mode) and
\* what it returned
SetCrtcCall(buffer, ok) ==
  <<"drmModeSetCrtc", m_crtc_id, m_buffers[buffer].fb_id, TheConnectorId, m_mode,
    IF ok THEN 0 ELSE -1>>

\* lines 246-254
PresentImmediate ==
  /\ Usable
  /\ \E buffer \in held, ok \in BOOLEAN :
       /\ calls' = << SetCrtcCall(buffer, ok) >>
       /\ pres' = [NoPresent EXCEPT !.kind = "immediate", !.buffer = buffer]
  /\ ret' = Void
  /\ UNCHANGED <<topoVars, life, devVars, m_fb_surface, bufVars, surfVars,
                 ppc, flip, evq, waitEverFailed>>

\* what is left on the descriptor when the call that asked for it has returned
Stale(x) == IF x = "own" THEN "stale" ELSE x

\* the return at line 267 left out
AfterSubmitNoReturn(ok) == "waiting"

\* lines 264-270: where the call is after drmModePageFlip returned
AfterSubmit(ok) == IF ok THEN "waiting" ELSE "idle"

\* lines 256-268.  The kernel refuses a flip while one is pending on the controller
\* or when the descriptor's event space is used up; it may refuse for other reasons.
PresentSubmit ==
  /\ Usable
  /\ \E buffer \in held, ok \in BOOLEAN :
       /\ ok => (flip = "none" /\ Len(evq) < MaxEvents)
       /\ calls' = << <<"drmModePageFlip", m_crtc_id, m_buffers[buffer].fb_id,
                        IF ok THEN 0 ELSE -1>> >>
       /\ flip' = IF ok THEN "own" ELSE flip
       /\ ppc' = AfterSubmit(ok)
       /\ pres' = [NoPresent EXCEPT !.kind = "sync", !.buffer = buffer, !.submitted = ok]
  /\ ret' = Void
  /\ UNCHANGED <<topoVars, life, devVars, m_fb_surface, bufVars, surfVars, evq, waitEverFailed>>

\* lines 275-280: select fails, the loop is left and the call returns
WaitFails ==
  /\ ppc = "waiting"
  /\ ppc' = "idle"
  /\ pres' = [pres EXCEPT !.waitFailed = TRUE,
                          !.outstanding = (flip = "own" \/ \E i \in 1..Len(evq) : evq[i] = "own")]
  /\ waitEverFailed' = TRUE
  /\ flip' = Stale(flip)
  /\ evq' = [i \in 1..Len(evq) |-> Stale(evq[i])]
  /\ calls' = calls \o << <<"select", -1>> >>
  /\ UNCHANGED <<topoVars, life, devVars, m_fb_surface, bufVars, surfVars, ret>>

\* break for continue at line 283
OnNoDataBreak == "idle"

\* lines 281-284: where the call is after select returned 0 (continue)
OnNoData == "waiting"

\* lines 281-284: select returns 0, the loop goes round
WaitSpurious ==
  /\ ppc = "waiting" /\ pres.spurious < MaxSpurious
  /\ pres' = [pres EXCEPT !.spurious = @ + 1]
  /\ ppc' = OnNoData
  /\ UNCHANGED <<topoVars, life, devVars, m_fb_surface, bufVars, surfVars,
                 flip, evq, waitEverFailed, ret, calls>>

\* a handler that leaves waiting_for_flip set
StillWaitingFlagKept(q, aliased) == TRUE

\* the loop condition after the handler ran for every queued event: an event of
\* this call's flip clears waiting_for_flip; an event of an earlier call's flip
\* writes through that call's dead &waiting_for_flip, which is this call's flag
\* (aliased) or is not
StillWaiting(q, aliased) ==
  ~ \E i \in 1..Len(q) : q[i] = "own" \/ (q[i] = "stale" /\ aliased)

\* lines 275, 286 and 270: select reports the descriptor readable, drmHandleEvent
\* reads the queued events and runs page_flip_handler on each, and the loop ends
\* when the flag was cleared
WaitReady ==
  /\ ppc = "waiting" /\ evq # <<>>
  /\ \E aliased \in {a \in BOOLEAN : a => \E i \in 1..Len(evq) : evq[i] = "stale"} :
       LET waiting == StillWaiting(evq, aliased)
       IN /\ ppc' = IF waiting THEN "waiting" ELSE "idle"
          /\ flip' = IF waiting THEN flip ELSE Stale(flip)
          /\ pres' = [pres EXCEPT !.handled = @ + Len(evq),
                                  !.own = @ + Cardinality({i \in 1..Len(evq) : evq[i] = "own"}),
                                  !.outstanding = ~waiting /\ flip = "own"]
  /\ evq' = <<>>
  /\ calls' = calls \o << <<"select", 1>>, <<"drmHandleEvent", Len(evq)>> >>
  /\ UNCHANGED <<topoVars, life, devVars, m_fb_surface, bufVars, surfVars, waitEverFailed, ret>>

\* the kernel completes the pending flip at a vertical blank and queues its event
FlipCompletes ==
  /\ life = "ready" /\ flip # "none"
  /\ evq' = Append(evq, flip)
  /\ flip' = "none"
  /\ UNCHANGED <<topoVars, life, devVars, m_fb_surface, bufVars, surfVars,
                 ppc, pres, waitEverFailed, ret, calls>>

-----------------------------------------------------------------------------
(* Specifications *)

Next ==
  \/ Initialize
  \/ CreateFramebufferSurface
  \/ SwapBuffers
  \/ LockFrontBuffer
  \/ ReleaseBuffer
  \/ PresentImmediate
  \/ PresentSubmit
  \/ WaitFails
  \/ WaitSpurious
  \/ WaitReady
  \/ FlipCompletes
  \/ Destructor

Spec == Init /\ [][Next]_vars

NextTopology == Initialize \/ Destructor

SpecTopology == InitTopology /\ [][NextTopology]_vars

\* The instance with a wait that does not fail and a kernel that delivers: a
\* pending flip completes at the next vertical blank, and select, which blocks
\* without timeout, returns once the descriptor is readable.
NextLive ==
  \/ Initialize
  \/ CreateFramebufferSurface
  \/ SwapBuffers
  \/ LockFrontBuffer
  \/ ReleaseBuffer
  \/ PresentImmediate
  \/ PresentSubmit
  \/ WaitSpurious
  \/ WaitReady
  \/ FlipCompletes
  \/ Destructor

SpecLive ==
  /\ Init /\ [][NextLive]_vars
  /\ WF_vars(FlipCompletes)
  /\ WF_vars(WaitReady)

-----------------------------------------------------------------------------
(* Controller resolution and mode selection: C5 - C9, under SpecTopology *)

\* Initialize has returned and nothing has run since
Initialized == ret.op = "Initialize"

\* Initialize got as far as selecting a mode
ModeSelected == Initialized /\ m_mode # 0

TheConnector == res.connectors[m_connector]

\* the encoders of the resource list whose id is the connector's encoder id
DirectEncoders ==
  {i \in 1..Len(res.encoders) : res.encoders[i].encoder_id = TheConnector.encoder_id}

\* the positions of the resource-list controllers encoder id e can drive
Drivable(e) ==
  {k \in 1..Len(res.crtcs) :
     \E i \in 1..Len(res.encoders) :
        res.encoders[i].encoder_id = e /\ BitSet(res.encoders[i].possible_crtcs, k - 1)}

\* the positions in the connector's encoder list of the encoders that can drive a controller
Driving == {j \in 1..Len(TheConnector.encoders) : Drivable(TheConnector.encoders[j]) # {}}

Least(S) == CHOOSE x \in S : \A y \in S : x <= y

ScanWasRun == \E i \in 1..Len(calls) : calls[i][1] = "find_crtc_for_connector"

ControllerIds == {res.crtcs[k] : k \in 1..Len(res.crtcs)}

\* C5: with no directly bound encoder and no reachable encoder able to drive a
\* controller, Initialize returns false; and a scan never ends in Initialize
\* returning true with an id that is no controller of the resource list.
C5_NoControllerFails ==
  /\ (ModeSelected /\ DirectEncoders = {} /\ Driving = {}) => ret.val = FALSE
  /\ (ModeSelected /\ DirectEncoders = {} /\ ret.val = TRUE) => m_crtc_id \in ControllerIds

\* C6: with no directly bound encoder, the controller is the lowest-position
\* controller of the first encoder, in the connector's encoder-list order, that
\* can drive one; encoders that can drive none are skipped.
C6_ScanSkipsToFirstDrivable ==
  (ModeSelected /\ DirectEncoders = {} /\ Driving # {})
    => m_crtc_id = res.crtcs[Least(Drivable(TheConnector.encoders[Least(Driving)]))]

\* C7: a resource-list encoder with the connector's encoder id and a non-zero
\* controller id: Initialize binds that controller id and does not call
\* find_crtc_for_connector.
C7_DirectBindingUsed ==
  \A i \in 1..Len(res.encoders) :
     (ModeSelected /\ i \in DirectEncoders /\ res.encoders[i].crtc_id # 0)
       => m_crtc_id = res.encoders[i].crtc_id /\ ~ScanWasRun

C7_Witness ==
  /\ ModeSelected /\ ret.val = TRUE
  /\ \E i \in DirectEncoders : res.encoders[i].crtc_id # 0 /\ m_crtc_id = res.encoders[i].crtc_id
  /\ Driving # {}
  /\ res.crtcs[Least(Drivable(TheConnector.encoders[Least(Driving)]))] # m_crtc_id

\* C8: the encoder with the connector's encoder id names no controller (id 0):
\* Initialize does not bind controller 0, it runs the scan over the connector's
\* encoders.
C8_UnboundEncoderFallsBack ==
  \A i \in 1..Len(res.encoders) :
     (ModeSelected /\ i \in DirectEncoders /\ res.encoders[i].crtc_id = 0)
       => m_crtc_id # 0 /\ ScanWasRun

\* the mode list of the selected connector
TheModes == TheConnector.modes

Preferred == {i \in 1..Len(TheModes) : TheModes[i].preferred}

Largest ==
  {i \in 1..Len(TheModes) :
     \A j \in 1..Len(TheModes) :
        TheModes[j].hdisplay * TheModes[j].vdisplay <= TheModes[i].hdisplay * TheModes[i].vdisplay}

\* C9: the first preferred mode when one is flagged preferred, else the first
\* mode of largest width x height; an empty mode list makes Initialize fail
\* before it resolves a controller.
C9_ModeSelection ==
  (Initialized /\ m_connector # 0) =>
     /\ Preferred # {} => m_mode = Least(Preferred)
     /\ (Preferred = {} /\ TheModes # <<>>) => m_mode = Least(Largest)
     /\ TheModes = <<>> =>
          /\ ret.val = FALSE /\ m_mode = 0
          /\ calls[Len(calls)][1] = "drmModeFreeResources"
          /\ \A i \in 1..Len(calls) : calls[i][1] \notin {"drmModeGetEncoder", "gbm_create_device"}

\* a preferred mode wins over a larger one that comes first, and the earlier of
\* two largest modes wins when none is preferred
C9_Witness ==
  /\ Initialized /\ m_connector # 0 /\ Len(TheModes) >= 2
  /\ \/ /\ Preferred # {} /\ m_mode = Least(Preferred) /\ m_mode > 1
        /\ m_mode \notin Largest
     \/ /\ Preferred = {} /\ Cardinality(Largest) >= 2 /\ m_mode = Least(Largest)
        /\ m_mode > 1

-----------------------------------------------------------------------------
(* The buffer tracker, teardown and synchronized present: C1 - C4, C10, under Spec *)

Tracked == 1..m_num_buffers

Called(cs, name) == \E i \in 1..Len(cs) : cs[i][1] = name

\* a step of LockFrontBuffer that got a buffer object from the surface
LockStep == front # 0 /\ front' = 0 /\ ret'.op = "LockFrontBuffer"

\* C1: the tracked entries hold each buffer object at most once, and there are
\* never more than MAX_BUFFERS of them.
C1_TrackedSetDistinctAndBounded ==
  /\ m_num_buffers <= MAX_BUFFERS
  /\ \A i, j \in Tracked : m_buffers[i].bo = m_buffers[j].bo => i = j

\* the set is full and a tracked buffer object was locked again
C1_Witness ==
  /\ life = "ready" /\ m_num_buffers = MAX_BUFFERS
  /\ ret.op = "LockFrontBuffer" /\ ret.val = m_num_buffers - 1
  /\ ~Called(calls, "drmModeAddFB2")

\* C2: LockFrontBuffer on a tracked buffer object returns its entry, leaves the
\* entries, the kernel's registry and the registration counts as they were and
\* does not call drmModeAddFB2; no buffer object is registered twice.
C2_HitReusesRegistration ==
  /\ [](\A b \in 1..NumBOs : regs[b] <= 1)
  /\ [][(LockStep /\ \E i \in Tracked : m_buffers[i].bo = front) =>
          /\ ret'.val \in Tracked /\ m_buffers[ret'.val].bo = front
          /\ m_buffers' = m_buffers /\ m_num_buffers' = m_num_buffers
          /\ kfb' = kfb /\ regs' = regs
          /\ ~Called(calls', "drmModeAddFB2")]_vars

\* a buffer object registered once, released and locked again: the same entry
\* with its framebuffer id, and no kernel call
C2_Witness ==
  /\ ret.op = "LockFrontBuffer" /\ ret.val \in 1..(m_num_buffers - 1)
  /\ m_buffers[ret.val].fb_id \in kfb
  /\ regs[m_buffers[ret.val].bo] = 1
  /\ calls = << <<"gbm_surface_lock_front_buffer", m_buffers[ret.val].bo>> >>

\* a step of LockFrontBuffer in which drmModeAddFB2 was called and registered nothing
FailedRegistration == LockStep /\ Called(calls', "drmModeAddFB2") /\ kfb' = kfb

\* C3: when drmModeAddFB2 fails, LockFrontBuffer returns nullptr, the tracked
\* entries and their count are as before and the buffer object is not tracked;
\* and every LockFrontBuffer that gets an untracked buffer object (with room in
\* the set) calls drmModeAddFB2, so a failed one is registered anew when it
\* comes back.
C3_FailedRegistrationNotTracked ==
  /\ [][FailedRegistration =>
          /\ ret'.val = 0
          /\ m_num_buffers' = m_num_buffers
          /\ \A i \in Tracked : m_buffers'[i] = m_buffers[i]
          /\ \A i \in 1..m_num_buffers' : m_buffers'[i].bo # front]_vars
  /\ [][(LockStep /\ m_num_buffers < MAX_BUFFERS /\ \A i \in Tracked : m_buffers[i].bo # front)
          => Called(calls', "drmModeAddFB2")]_vars

\* a registration failed with entries already tracked: nullptr, and the buffer
\* object sits in the slot after the tracked ones, untracked
C3_Witness ==
  /\ ret.op = "LockFrontBuffer" /\ ret.val = 0 /\ Called(calls, "drmModeAddFB2")
  /\ m_num_buffers >= 1 /\ m_num_buffers < MAX_BUFFERS
  /\ m_buffers[m_num_buffers + 1].bo = calls[Len(calls)][2]
  /\ \A i \in Tracked : m_buffers[i].bo # calls[Len(calls)][2]
  /\ \E b \in 1..NumBOs : regs[b] = 1

Destroyed == life = "destroyed"

\* the place of a teardown call in the order of the claim
Rank(c) ==
  CASE c[1] = "drmModeRmFB" -> 1
    [] c[1] = "gbm_surface_destroy" -> 2
    [] c[1] = "gbm_device_destroy" -> 3
    [] c[1] = "drmModeFreeConnector" -> 4
    [] c[1] = "close" -> 5
    [] OTHER -> 0

\* C4: teardown unregisters every tracked framebuffer, then destroys the
\* surface, then the allocator device, then frees the connector, then closes the
\* descriptor, each once and only what there is; nothing follows the close.
C4_TeardownOrder ==
  Destroyed =>
    /\ \A i, j \in 1..Len(calls) :
          i < j => /\ Rank(calls[i]) >= 1
                   /\ Rank(calls[i]) <= Rank(calls[j])
                   /\ Rank(calls[i]) = Rank(calls[j]) => Rank(calls[i]) = 1 /\ calls[i] # calls[j]
    /\ kfb = {}
    /\ m_fb_surface # NoSurface <=> Called(calls, "gbm_surface_destroy")
    /\ m_gbm_device <=> Called(calls, "gbm_device_destroy")
    /\ m_connector # 0 <=> Called(calls, "drmModeFreeConnector")
    /\ m_card_fd >= 0 <=> Called(calls, "close")

\* an instance torn down with several framebuffers registered
C4_Witness ==
  /\ Destroyed /\ Len(calls) >= 6
  /\ calls[1][1] = "drmModeRmFB" /\ calls[2][1] = "drmModeRmFB"
  /\ calls[Len(calls)][1] = "close"
  /\ Called(calls, "gbm_surface_destroy")

\* a synchronized PresentSurface whose flip was submitted has returned
SyncReturned == ppc = "idle" /\ pres.kind = "sync" /\ pres.submitted

\* C10 as claimed: a synchronized PresentSurface whose flip was submitted returns
\* only after its handler processed exactly one flip-completion event, and never
\* with its flip outstanding.
C10_ReturnsAfterOneCompletion ==
  SyncReturned => pres.handled = 1 /\ ~pres.outstanding

\* C10 as amended: it returns only after its wait failed or its handler processed
\* a completion event; when no wait has failed on the instance, after exactly
\* one event, that of its own flip, and with no flip outstanding.
C10_ReturnsAfterCompletionOrWaitFailure ==
  SyncReturned =>
    /\ pres.waitFailed \/ pres.handled >= 1
    /\ ~waitEverFailed => pres.handled = 1 /\ pres.own = 1 /\ ~pres.outstanding

\* a call that went round the loop without data and returned on its flip's event
C10_Witness ==
  /\ SyncReturned /\ ~waitEverFailed
  /\ pres.spurious >= 1 /\ pres.handled = 1 /\ pres.own = 1 /\ flip = "none"

-----------------------------------------------------------------------------
(* PresentSurface, call by call (C11, C12, C17, C18, C19) *)

\* an immediate PresentSurface has returned and nothing was called since
ImmediateReturned == ret.op = "PresentSurface" /\ pres.kind = "immediate"

\* a step of PresentSurface with wait_for_vsync = false
ImmediateStep == pres'.kind = "immediate" /\ <<pres, calls>>' # <<pres, calls>>

\* C11: an immediate PresentSurface makes one call, drmModeSetCrtc with the bound
\* controller, the framebuffer id of the buffer it was given, the connector and
\* the selected mode, and returns, whatever that call returned: no page flip is
\* submitted, nothing is waited for and no event is dispatched.
C11_ImmediatePresentOneSetCrtc ==
  /\ [](ImmediateReturned =>
          /\ Len(calls) = 1
          /\ calls[1][1] = "drmModeSetCrtc"
          /\ calls[1][2] = m_crtc_id
          /\ pres.buffer \in Tracked /\ calls[1][3] = m_buffers[pres.buffer].fb_id
          /\ calls[1][3] \in kfb
          /\ calls[1][4] = TheConnectorId
          /\ calls[1][5] = m_mode /\ m_mode \in 1..Len(TheModes)
          /\ calls[1][6] \in {0, -1}
          /\ ppc = "idle" /\ ~pres.submitted
          /\ pres.handled = 0 /\ pres.spurious = 0 /\ ~pres.waitFailed)
  /\ [][ImmediateStep => ppc' = "idle" /\ flip' = flip /\ evq' = evq]_vars

\* drmModeSetCrtc failed for the second tracked buffer while another buffer was held
C11_Witness ==
  /\ ImmediateReturned /\ calls[1][6] = -1
  /\ pres.buffer = 2 /\ Cardinality(held) = 2

\* PresentSurface has returned and its request (drmModeSetCrtc or drmModePageFlip,
\* the first call it made) was refused
PresentFailed ==
  /\ ret.op = "PresentSurface" /\ pres.kind \in {"immediate", "sync"}
  /\ calls[1][Len(calls[1])] = -1

\* C12: when drmModeSetCrtc (immediate) or drmModePageFlip (synchronized) fails,
\* what PresentSurface returns differs from what a successful present returns.
C12_PresentErrorsReported == PresentFailed => ret # Void

\* the flip the running call submitted has not completed, or its completion
\* event has not been handled
OwnOutstanding == flip = "own" \/ \E i \in 1..Len(evq) : evq[i] = "own"

\* a step in which select returned or drmHandleEvent ran
WaitOrDispatch ==
  \/ pres'.spurious > pres.spurious
  \/ pres'.handled > pres.handled
  \/ pres'.waitFailed /\ ~pres.waitFailed

\* C17: a PresentSurface call is in its wait loop only with a flip of its own
\* submitted and outstanding and its flag not yet cleared by that flip's event;
\* select and drmHandleEvent run only then; a call whose drmModePageFlip failed
\* returns having called nothing else.
C17_WaitsOnlyWhileOwnFlipOutstanding ==
  /\ [](ppc = "waiting" =>
          /\ pres.kind = "sync" /\ pres.submitted /\ ~pres.waitFailed
          /\ pres.own = 0 /\ OwnOutstanding)
  /\ []((ret.op = "PresentSurface" /\ pres.kind = "sync" /\ ~pres.submitted) =>
          /\ ppc = "idle"
          /\ Len(calls) = 1 /\ calls[1][1] = "drmModePageFlip" /\ calls[1][4] = -1
          /\ pres.spurious = 0 /\ pres.handled = 0 /\ ~pres.waitFailed)
  /\ [][WaitOrDispatch => ppc = "waiting" /\ OwnOutstanding]_vars

\* drmModePageFlip was refused while the flip of an earlier call, whose wait had
\* failed, was still pending: the call returned at once
C17_Witness ==
  /\ ret.op = "PresentSurface" /\ pres.kind = "sync" /\ ~pres.submitted
  /\ ppc = "idle" /\ flip = "stale" /\ Len(calls) = 1

\* C18: with a wait that never fails and completion events delivered, every
\* PresentSurface that is in its wait loop returns, whatever the number (up to
\* MaxSpurious) of wake-ups without a ready descriptor; such a wake-up handles
\* no event, makes no call and leaves the call in the loop.
C18_SynchronizedPresentReturns ==
  /\ (ppc = "waiting") ~> (ppc = "idle")
  /\ [][pres'.spurious > pres.spurious =>
          /\ ppc = "waiting" /\ ppc' = "waiting"
          /\ evq' = evq /\ flip' = flip /\ calls' = calls
          /\ pres'.handled = pres.handled]_vars

\* a call that was woken without data as often as the bound allows and then
\* returned on the event of its own flip
C18_Witness ==
  /\ SyncReturned /\ pres.spurious = MaxSpurious
  /\ pres.handled = 1 /\ pres.own = 1 /\ ~pres.outstanding /\ evq = <<>>

\* C19: every flip-completion event a PresentSurface call's handler processes is
\* the event of the flip that call submitted, so none is handled with the flag
\* reference of a call that has returned.
C19_EventsHandledByTheirOwnCall == pres.handled = pres.own

-----------------------------------------------------------------------------
(* Initialize step by step, and what teardown gives back (C13, C16) *)

\* the connectors of the resource list that report connected
Connected == {i \in 1..Len(res.connectors) : res.connectors[i].connected}

\* the calls of Initialize that acquire something after the connector scan
LateCalls == {"drmModeGetEncoder", "find_crtc_for_connector", "gbm_create_device"}

NoneCalled(cs, names) == \A i \in 1..Len(cs) : cs[i][1] \notin names

\* C13: Initialize returns false when open fails, when drmModeGetResources
\* fails, when no connector is connected (otherwise the first connected one is
\* selected), when the selected connector has no mode and when gbm_create_device
\* fails; the failing call is the last acquisition Initialize makes.
C13_InitializeFailsAtFirstFailure ==
  Initialized =>
    /\ calls[1][1] = "open"
    /\ calls[1][2] < 0 => ret.val = FALSE /\ Len(calls) = 1 /\ m_card_fd < 0
    /\ calls[1][2] >= 0 => m_card_fd >= 0 /\ Len(calls) >= 2 /\ calls[2][1] = "drmModeGetResources"
    /\ (Len(calls) >= 2 /\ calls[2][2] = 0) =>
          ret.val = FALSE /\ Len(calls) = 2 /\ m_connector = 0
    /\ (Len(calls) >= 2 /\ calls[2][2] = 1) =>
          /\ Connected = {} => /\ ret.val = FALSE /\ m_connector = 0 /\ m_mode = 0
                               /\ NoneCalled(calls, LateCalls)
          /\ Connected # {} =>
                /\ m_connector = Least(Connected)
                /\ \A i \in 1..Len(calls) :
                      calls[i][1] = "drmModeGetConnector" => calls[i][2] <= m_connector
                /\ TheModes = <<>> => /\ ret.val = FALSE /\ m_mode = 0
                                      /\ NoneCalled(calls, LateCalls)
    /\ \A i \in 1..Len(calls) :
          (calls[i][1] = "gbm_create_device" /\ calls[i][2] = 0) =>
             ret.val = FALSE /\ i = Len(calls) /\ ~m_gbm_device
    /\ ret.val = TRUE =>
          /\ m_card_fd >= 0 /\ m_connector # 0 /\ m_mode # 0 /\ m_gbm_device
          /\ calls[Len(calls)] = <<"gbm_create_device", 1>>

\* the second connector was the first connected one, and gbm_create_device failed
C13_Witness ==
  /\ Initialized /\ ret.val = FALSE
  /\ m_connector = 2 /\ m_mode # 0
  /\ calls[Len(calls)] = <<"gbm_create_device", 0>>

\* how often a call sequence makes the call of that name
CountOf(cs, name) == Cardinality({i \in 1..Len(cs) : cs[i][1] = name})

\* the successful drmModeAddFB2 calls of the instance's life
Registrations == Cardinality({b \in 1..NumBOs : regs[b] >= 1})

\* C16: Initialize frees the resource list it got exactly once, and none when it
\* got none; teardown unregisters every framebuffer that was registered, once
\* each and no other, destroys the surface, destroys the allocator device, frees
\* the connector and closes the descriptor exactly once each when the instance
\* has one and not at all when it has none, the close coming last.
C16_EveryResourceReleasedOnce ==
  /\ Initialized =>
        CountOf(calls, "drmModeFreeResources") =
          (IF Len(calls) >= 2 /\ calls[2] = <<"drmModeGetResources", 1>> THEN 1 ELSE 0)
  /\ Destroyed =>
        /\ kfb = {}
        /\ \A b \in 1..NumBOs : regs[b] <= 1
        /\ CountOf(calls, "drmModeRmFB") = Registrations
        /\ Removed(calls) = {50 + k : k \in 1..Registrations}
        /\ CountOf(calls, "gbm_surface_destroy") = (IF m_fb_surface # NoSurface THEN 1 ELSE 0)
        /\ CountOf(calls, "gbm_device_destroy") = (IF m_gbm_device THEN 1 ELSE 0)
        /\ CountOf(calls, "drmModeFreeConnector") = (IF m_connector # 0 THEN 1 ELSE 0)
        /\ CountOf(calls, "close") = (IF m_card_fd >= 0 THEN 1 ELSE 0)
        /\ m_card_fd >= 0 => calls[Len(calls)] = <<"close", m_card_fd>>
        /\ Len(calls) = Registrations + CountOf(calls, "gbm_surface_destroy")
                          + CountOf(calls, "gbm_device_destroy")
                          + CountOf(calls, "drmModeFreeConnector") + CountOf(calls, "close")

\* teardown after gbm_create_device failed: the connector and the descriptor,
\* and nothing else
C16_Witness ==
  /\ Destroyed /\ m_card_fd >= 0 /\ m_connector # 0 /\ ~m_gbm_device
  /\ calls = << <<"drmModeFreeConnector", m_connector>>, <<"close", m_card_fd>> >>

-----------------------------------------------------------------------------
(* The tracked entries and the surface's buffer objects (C14, C15, C20) *)

\* C14: until teardown no step takes a tracked entry away or changes one: the
\* count never goes down and every tracked entry keeps its buffer object, size,
\* stride, format and framebuffer id; ReleaseBuffer and PresentSurface (its wait
\* included) leave all entries and the count as they were.
C14_TrackedEntriesOnlyGrow ==
  [][life' # "destroyed" =>
       /\ m_num_buffers' >= m_num_buffers
       /\ \A i \in Tracked : m_buffers'[i] = m_buffers[i]
       /\ (ret'.op \in {"ReleaseBuffer", "PresentSurface"} \/ ppc = "waiting") =>
             m_buffers' = m_buffers /\ m_num_buffers' = m_num_buffers]_vars

\* a buffer was released with several entries tracked and the trace of a failed
\* registration in the slot after them
C14_Witness ==
  /\ ret.op = "ReleaseBuffer"
  /\ m_num_buffers >= 2 /\ m_num_buffers < MAX_BUFFERS
  /\ m_buffers[m_num_buffers + 1].bo # 0
  /\ \A i \in Tracked : m_buffers[i].fb_id \in kfb

\* a step in which LockFrontBuffer called gbm_surface_lock_front_buffer
LockCall ==
  /\ Len(calls') >= 1 /\ calls'[1][1] = "gbm_surface_lock_front_buffer"
  /\ front # 0 \/ life' # life

\* C15: a LockFrontBuffer that gets an untracked buffer object while MAX_BUFFERS
\* entries are tracked ends in an assertion failure, not in a return: no slot
\* and no count is written, the kernel's registry is as before and
\* drmModeAddFB2 is not called.
C15_MissWhenFullAsserts ==
  [][(LockCall /\ m_num_buffers = MAX_BUFFERS /\ \A i \in Tracked : m_buffers[i].bo # front) =>
       /\ life' = "aborted"
       /\ ret' = Returned("Assert", "LockFrontBuffer")
       /\ m_buffers' = m_buffers /\ m_num_buffers' = m_num_buffers
       /\ kfb' = kfb /\ regs' = regs /\ held' = held
       /\ calls' = << <<"gbm_surface_lock_front_buffer", front>> >>]_vars

\* the assertion failed on a buffer object the surface had just allocated
C15_Witness ==
  /\ life = "aborted" /\ ret.op = "Assert" /\ ret.val = "LockFrontBuffer"
  /\ m_num_buffers = MAX_BUFFERS
  /\ calls[1][2] # 0
  /\ \A i \in Tracked : m_buffers[i].bo # calls[1][2]

\* the buffer objects the caller has a buffer reference for
Referenced == {m_buffers[s].bo : s \in held}

\* C20: between operations every buffer object locked in the surface is one the
\* caller holds a buffer reference for, so that ReleaseBuffer can give it back.
C20_LockedBuffersAreReleasable ==
  (life = "ready" /\ ppc = "idle") => locked \subseteq Referenced

=============================================================================
